---- MODULE Spec2Model ----
(***************************************************************************)
(* Model of src/frontend/app.js, the browser script of the KBZhU tracker:  *)
(* photo selection (file picker or drag and drop), asynchronous preview    *)
(* decoding with a FileReader, removal of the selection, and the           *)
(* placeholder analysis (a 1.5 s timer followed by one of three canned     *)
(* results).                                                                *)
(*                                                                         *)
(* The script runs on the browser's event loop, so every handler and every *)
(* asynchronous continuation is one atomic step.  The steps are:           *)
(*   handleFileSelect  'change' on #photo-input            (line 59)       *)
(*   handleDrop        'drop' on .upload-label             (line 90)       *)
(*   removePhoto       'click' on #remove-btn              (line 137)      *)
(*   analyzePhoto      'click' on #analyze-btn, up to the await (line 155) *)
(*   readerOnload      the FileReader's load callback      (line 117)      *)
(*   readerError       a FileReader that fails: no callback is registered  *)
(*   analyzeResume     analyzePhoto after the await: the rest of the try   *)
(*                     block, catch and finally            (lines 168-179) *)
(* handleDragOver and handleDragLeave only restyle the drop zone and are   *)
(* left out together with the style fields they write.  photoInput.value,  *)
(* which removePhoto clears (line 139), is read by no handler and is left  *)
(* out too: a file of the model stands for an image, and the same image    *)
(* can be picked or dropped again at any time.                             *)
(***************************************************************************)
EXTENDS Integers, Sequences, FiniteSets

(***************************************************************************)
(* Bounds of the model.                                                    *)
(***************************************************************************)
\* Number of distinct image files the user can choose from.
NumImages == 2
\* Largest number of asynchronous operations outstanding at once: FileReader
\* decodes that are pending plus analyzePhoto calls suspended at their await.
MaxPending == 2

(***************************************************************************)
(* Files and their declared content types.  A content type is the sequence *)
(* of its characters, so that startsWith is computed and not assumed.      *)
(***************************************************************************)
\* let selectedFile = null
null == 0

ImagePng == <<"i", "m", "a", "g", "e", "/", "p", "n", "g">>
ImageJpeg == <<"i", "m", "a", "g", "e", "/", "j", "p", "e", "g">>

\* Content types that are not images: the empty type the browser reports for
\* a file of unknown kind, and an ordinary non-image type.
OtherTypes ==
    << <<>>,
       <<"t", "e", "x", "t", "/", "p", "l", "a", "i", "n">> >>

ImageFiles == 1..NumImages
OtherFiles == (NumImages + 1)..(NumImages + Len(OtherTypes))
Files == ImageFiles \cup OtherFiles

\* file.type
FileType(file) ==
    IF file \in ImageFiles
    THEN (IF file % 2 = 1 THEN ImagePng ELSE ImageJpeg)
    ELSE OtherTypes[file - NumImages]

\* The literal 'image/' of lines 96 and 107.
ImagePrefix == <<"i", "m", "a", "g", "e", "/">>

\* String.prototype.startsWith
startsWith(s, prefix) ==
    /\ Len(s) >= Len(prefix)
    /\ SubSeq(s, 1, Len(prefix)) = prefix

\* e.target.result of readAsDataURL(file): a data URL that carries the
\* file's type and content; '' is the empty src that removePhoto sets.
DataURL(file) == <<"data:", FileType(file), file>>
EmptySrc == <<>>

(***************************************************************************)
(* Messages and errors.                                                    *)
(***************************************************************************)
\* A message is the sequence of its words (transliterated), so that one
\* message containing another is computed.
NoNotice == <<>>
\* alert('Пожалуйста, выберите изображение')
InvalidTypeMsg == <<"Pozhalujsta,", "vyberite", "izobrazhenie">>
\* alert('Произошла ошибка при анализе изображения')
AnalysisErrorMsg ==
    <<"Proizoshla", "oshibka", "pri", "analize", "izobrazheniya">>

NoError == [name |-> "", message |-> <<>>]
\* What an assignment to .textContent of a null element handle throws.
NullElementError ==
    [name |-> "TypeError",
     message |-> <<"Cannot", "set", "properties", "of", "null">>]

(***************************************************************************)
(* The canned results and their rendering.                                 *)
(***************************************************************************)
mockResults ==
    << [name |-> "Grecheskij salat", calories |-> 180, proteins |-> 5,
        fats |-> 14, carbs |-> 9, info |-> "Primernaya porciya: 250g"],
       [name |-> "Kurinaya grudka s risom", calories |-> 420, proteins |-> 35,
        fats |-> 8, carbs |-> 52, info |-> "Primernaya porciya: 350g"],
       [name |-> "Ovsyanaya kasha s fruktami", calories |-> 280, proteins |-> 8,
        fats |-> 6, carbs |-> 48, info |-> "Primernaya porciya: 300g"] >>

\* The result elements in the order displayResults writes them, and the
\* field of the data each one receives.
ResultElements ==
    <<"dishName", "calories", "proteins", "fats", "carbs", "additionalInfo">>
DataFields == <<"name", "calories", "proteins", "fats", "carbs", "info">>

Digit(d) == <<"0", "1", "2", "3", "4", "5", "6", "7", "8", "9">>[d + 1]

RECURSIVE NumberToString(_)
\* The string conversion of a non-negative integer assigned to textContent.
NumberToString(n) ==
    IF n < 10 THEN Digit(n) ELSE NumberToString(n \div 10) \o Digit(n % 10)

\* The text that element number i shows once data has been written to it.
TextOf(data, i) ==
    IF DataFields[i] \in {"name", "info"}
    THEN data[DataFields[i]]
    ELSE NumberToString(data[DataFields[i]])

VARIABLES
    selectedFile,     \* let selectedFile (line 31): null or a file
    previewSrc,       \* previewImage.src
    previewHidden,    \* previewSection.hidden
    uploadHidden,     \* uploadLabel.parentElement.hidden
    analyzeDisabled,  \* analyzeBtn.disabled
    resultHidden,     \* resultSection.hidden
    loaderHidden,     \* loader.hidden
    rendered,         \* textContent of the six result elements
    missing,          \* 0, or the number of the first result element that
                      \* the document lacks (its handle is null)
    readers,          \* FileReaders still decoding: file -> how many
    inflight,         \* analyzePhoto calls suspended at the await, oldest
                      \* first; each remembers the file selected at its start
    resultFor,        \* the file selected when the analysis whose result is
                      \* rendered was started (null before any result)
    notice,           \* the message alert() showed in the last step
    logged,           \* the error console.error logged in the last step
    event             \* the event or callback the last step handled

vars ==
    <<selectedFile, previewSrc, previewHidden, uploadHidden, analyzeDisabled,
      resultHidden, loaderHidden, rendered, missing, readers, inflight,
      resultFor, notice, logged, event>>

\* The state the handlers read and write, without the per-step outputs.
uiVars ==
    <<selectedFile, previewSrc, previewHidden, uploadHidden, analyzeDisabled,
      resultHidden, loaderHidden, rendered, readers, inflight>>

RECURSIVE SumReads(_, _)
SumReads(r, n) == IF n = 0 THEN 0 ELSE r[n] + SumReads(r, n - 1)

\* How many FileReaders are decoding.
PendingReads == SumReads(readers, NumImages)

\* How many callbacks the event loop still owes the script.
Outstanding == PendingReads + Len(inflight)

Event(kind, file) == [kind |-> kind, file |-> file]

(***************************************************************************)
(* Initial state.                                                          *)
(***************************************************************************)
\* The page the script is loaded into: the upload form is shown, the
\* preview, the results and the loader are hidden, the trigger is disabled
\* and the result elements are empty.
InitialDocument ==
    /\ previewSrc = EmptySrc
    /\ previewHidden = TRUE
    /\ uploadHidden = FALSE
    /\ analyzeDisabled = TRUE
    /\ resultHidden = TRUE
    /\ loaderHidden = TRUE
    /\ rendered = [i \in 1..Len(ResultElements) |-> ""]

\* getElementById (lines 20-25) yields null for an element the document
\* lacks, and displayResults stops at the first such element.  The documents
\* considered: the complete one, and one that lacks the first result element.
Documents == {0, 1}

Init ==
    /\ selectedFile = null
    /\ InitialDocument
    /\ missing \in Documents
    /\ readers = [f \in ImageFiles |-> 0]
    /\ inflight = <<>>
    /\ resultFor = null
    /\ notice = NoNotice
    /\ logged = NoError
    /\ event = Event("init", null)

(***************************************************************************)
(* Selection and preview.                                                  *)
(***************************************************************************)
\* The model's cap on pending decodes: a file that processFile would accept
\* is only offered while fewer than MaxPending operations are outstanding.
ReaderAvailable(file) ==
    startsWith(FileType(file), ImagePrefix) => Outstanding < MaxPending

\* processFile as it would be without its type check (lines 107-110).
processFileUnchecked(file) ==
    /\ selectedFile' = file
    /\ readers' = [readers EXCEPT ![file] = @ + 1]
    /\ notice' = NoNotice

\* processFile(file), lines 105-122.
processFile(file) ==
    IF ~startsWith(FileType(file), ImagePrefix)
    THEN /\ notice' = InvalidTypeMsg
         /\ UNCHANGED <<selectedFile, readers>>
    ELSE /\ selectedFile' = file
         /\ readers' = [readers EXCEPT ![file] = @ + 1]
         /\ notice' = NoNotice

\* handleFileSelect(event), lines 59-64.  file is event.target.files[0]:
\* null when the picker was emptied.
handleFileSelect(file) ==
    /\ file # null => ReaderAvailable(file)
    /\ event' = Event("change", file)
    /\ IF file # null
       THEN processFile(file)
       ELSE /\ notice' = NoNotice
            /\ UNCHANGED <<selectedFile, readers>>
    /\ logged' = NoError
    /\ UNCHANGED <<previewSrc, previewHidden, uploadHidden, analyzeDisabled,
                   resultHidden, loaderHidden, rendered, missing, inflight,
                   resultFor>>

\* handleDrop(event), lines 90-99.  file is event.dataTransfer.files[0].
\* The drop zone receives drops only while it is displayed.
handleDrop(file) ==
    /\ uploadHidden = FALSE
    /\ file # null => ReaderAvailable(file)
    /\ event' = Event("drop", file)
    /\ IF file # null /\ startsWith(FileType(file), ImagePrefix)
       THEN processFile(file)
       ELSE /\ notice' = NoNotice
            /\ UNCHANGED <<selectedFile, readers>>
    /\ logged' = NoError
    /\ UNCHANGED <<previewSrc, previewHidden, uploadHidden, analyzeDisabled,
                   resultHidden, loaderHidden, rendered, missing, inflight,
                   resultFor>>

\* showPreview as it would be without line 129.
showPreviewKeepsUpload ==
    /\ previewHidden' = FALSE
    /\ analyzeDisabled' = FALSE
    /\ resultHidden' = TRUE
    /\ UNCHANGED uploadHidden

\* showPreview as it would be without line 128.
showPreviewWithoutReveal ==
    /\ uploadHidden' = TRUE
    /\ analyzeDisabled' = FALSE
    /\ resultHidden' = TRUE
    /\ UNCHANGED previewHidden

\* showPreview(), lines 127-132.
showPreview ==
    /\ previewHidden' = FALSE
    /\ uploadHidden' = TRUE
    /\ analyzeDisabled' = FALSE
    /\ resultHidden' = TRUE

\* reader.onload, lines 117-120: the decode of file has finished.
readerOnload(file) ==
    /\ readers[file] > 0
    /\ readers' = [readers EXCEPT ![file] = @ - 1]
    /\ previewSrc' = DataURL(file)
    /\ showPreview
    /\ event' = Event("readerLoad", file)
    /\ notice' = NoNotice
    /\ logged' = NoError
    /\ UNCHANGED <<selectedFile, loaderHidden, rendered, missing,
                   inflight, resultFor>>

\* A FileReader whose read fails fires 'error'; lines 116-121 register no
\* handler for it, so the reader just goes away.
readerError(file) ==
    /\ readers[file] > 0
    /\ readers' = [readers EXCEPT ![file] = @ - 1]
    /\ event' = Event("readerError", file)
    /\ notice' = NoNotice
    /\ logged' = NoError
    /\ UNCHANGED <<selectedFile, previewSrc, previewHidden,
                   uploadHidden, analyzeDisabled, resultHidden, loaderHidden,
                   rendered, missing, inflight, resultFor>>

\* removePhoto(), lines 137-145.
removePhoto ==
    /\ selectedFile' = null
    /\ previewSrc' = EmptySrc
    /\ previewHidden' = TRUE
    /\ uploadHidden' = FALSE
    /\ analyzeDisabled' = TRUE
    /\ resultHidden' = TRUE
    /\ event' = Event("removeClick", null)
    /\ notice' = NoNotice
    /\ logged' = NoError
    /\ UNCHANGED <<loaderHidden, rendered, missing, readers, inflight,
                   resultFor>>

(***************************************************************************)
(* Analysis.                                                               *)
(***************************************************************************)
\* The selection guard as it would be if line 156 were missing.
HasSelectionUnchecked == TRUE

\* if (!selectedFile) return;  (line 156)
HasSelection == selectedFile # null

\* analyzePhoto() up to its await, lines 155-165.  A disabled button
\* dispatches no click.  simulateApiCall (lines 186-188) arms a 1500 ms
\* timer; the call stays suspended until the timer fires.  The model starts
\* a request only while fewer than MaxPending operations are outstanding.
analyzePhoto ==
    /\ analyzeDisabled = FALSE
    /\ event' = Event("analyzeClick", null)
    /\ notice' = NoNotice
    /\ logged' = NoError
    /\ IF ~HasSelection
       THEN UNCHANGED <<loaderHidden, analyzeDisabled, resultHidden, inflight>>
       ELSE /\ Outstanding < MaxPending
            /\ loaderHidden' = FALSE
            /\ analyzeDisabled' = TRUE
            /\ resultHidden' = TRUE
            /\ inflight' = Append(inflight, [file |-> selectedFile])
    /\ UNCHANGED <<selectedFile, previewSrc, previewHidden,
                   uploadHidden, rendered, missing, readers, resultFor>>

\* Math.floor(Math.random() * mockResults.length), line 224.
RandomIndexes == 0..(Len(mockResults) - 1)

\* getMockAnalysisResult as it would be if the calories were taken from the
\* record after the chosen one.
getMockAnalysisResultMixed(randomIndex) ==
    [mockResults[randomIndex + 1] EXCEPT
        !.calories = mockResults[((randomIndex + 1) % Len(mockResults)) + 1].calories]

\* getMockAnalysisResult(), lines 194-226, for one value of the random index.
getMockAnalysisResult(randomIndex) == mockResults[randomIndex + 1]

\* The element texts after displayResults has written the first n elements.
Written(data, n) ==
    [i \in 1..Len(ResultElements) |->
        IF i <= n THEN TextOf(data, i) ELSE rendered[i]]

\* displayResults(data), lines 232-241, when every element exists.
displayResults(data) ==
    /\ rendered' = Written(data, Len(ResultElements))
    /\ resultHidden' = FALSE

\* displayResults on a null element as it would be if the results section
\* were revealed (line 240) before the element texts are written.
displayResultsThrowsRevealed(data) ==
    /\ rendered' = Written(data, missing - 1)
    /\ resultHidden' = FALSE

\* displayResults(data) when element number `missing` is null: the
\* assignments before it are done, then the TypeError leaves the function.
displayResultsThrows(data) ==
    /\ rendered' = Written(data, missing - 1)
    /\ UNCHANGED resultHidden

\* The catch block as it would be without its alert (line 174).
catchSilent(error) ==
    /\ logged' = error
    /\ notice' = NoNotice

\* catch (error), lines 172-174.
catch(error) ==
    /\ logged' = error
    /\ notice' = AnalysisErrorMsg

\* The finally block as it would be without line 178.
finallyKeepsDisabled ==
    /\ loaderHidden' = TRUE
    /\ UNCHANGED analyzeDisabled

\* The finally block as it would be without line 177.
finallyKeepsLoader ==
    /\ analyzeDisabled' = FALSE
    /\ UNCHANGED loaderHidden

\* finally, lines 175-179.
finally ==
    /\ loaderHidden' = TRUE
    /\ analyzeDisabled' = FALSE

\* analyzePhoto() from the firing of the oldest timer on, lines 165-179:
\* timers of equal delay fire in the order they were armed.
analyzeResume ==
    /\ inflight # <<>>
    /\ inflight' = Tail(inflight)
    /\ event' = Event("timeout", null)
    /\ \E randomIndex \in RandomIndexes :
         LET mockData == getMockAnalysisResult(randomIndex)
         IN IF missing = 0
            THEN /\ displayResults(mockData)
                 /\ resultFor' = Head(inflight).file
                 /\ notice' = NoNotice
                 /\ logged' = NoError
            ELSE /\ displayResultsThrows(mockData)
                 /\ catch(NullElementError)
                 /\ UNCHANGED resultFor
    /\ finally
    /\ UNCHANGED <<selectedFile, previewSrc, previewHidden,
                   uploadHidden, missing, readers>>

(***************************************************************************)
(* Specifications.                                                         *)
(***************************************************************************)
Next ==
    \/ \E file \in Files \cup {null} : handleFileSelect(file)
    \/ \E file \in Files \cup {null} : handleDrop(file)
    \/ \E file \in ImageFiles : readerOnload(file)
    \/ \E file \in ImageFiles : readerError(file)
    \/ removePhoto
    \/ analyzePhoto
    \/ analyzeResume

Spec == Init /\ [][Next]_vars

\* A started read ends (with 'load' or with 'error'), and an armed timer
\* fires.
LiveSpec ==
    /\ Spec
    /\ \A file \in ImageFiles :
         WF_vars(readerOnload(file) \/ readerError(file))
    /\ WF_vars(analyzeResume)

(***************************************************************************)
(* Vocabulary of the properties.                                           *)
(***************************************************************************)
\* The last step handled a file-picker change or a drop whose file is not
\* an image.
RejectedInput(e) ==
    /\ e.kind \in {"change", "drop"}
    /\ e.file # null
    /\ ~startsWith(FileType(e.file), ImagePrefix)

\* The UI mode NoSelection.
NoSelection ==
    /\ selectedFile = null
    /\ previewHidden = TRUE
    /\ previewSrc = EmptySrc
    /\ uploadHidden = FALSE
    /\ analyzeDisabled = TRUE
    /\ resultHidden = TRUE

\* The preview is shown in place of the upload form and the trigger is
\* enabled.
PreviewShown ==
    /\ previewHidden = FALSE
    /\ uploadHidden = TRUE
    /\ analyzeDisabled = FALSE

\* The trigger is enabled and the loader is hidden.
Interactive ==
    /\ loaderHidden = TRUE
    /\ analyzeDisabled = FALSE

\* Message whole holds message part as a run of consecutive words.
Contains(whole, part) ==
    \E i \in 1..(Len(whole) - Len(part) + 1) :
        SubSeq(whole, i, i + Len(part) - 1) = part

(***************************************************************************)
(* C1.  At most one analysis request is in flight in every reachable       *)
(* state, a request being in flight from the moment analyzePhoto passes    *)
(* its selection guard until its finally block has run.                    *)
(***************************************************************************)
C1_AtMostOneInFlight == Len(inflight) <= 1

(***************************************************************************)
(* C2.  Whenever the results surface is visible, a file is selected and    *)
(* the displayed result comes from an analysis that was started while that *)
(* same file was the selected file.                                        *)
(***************************************************************************)
C2_NoStaleResult ==
    resultHidden = FALSE => (selectedFile # null /\ resultFor = selectedFile)

(***************************************************************************)
(* C3.  A step that handles a file-picker change or a drop of a file whose *)
(* content type does not start with "image/" leaves selectedFile, the      *)
(* preview image, the visibility of the preview, upload and results        *)
(* surfaces and the trigger's enabled state unchanged, and starts no       *)
(* preview decode.                                                         *)
(***************************************************************************)
C3_RejectionChangesNothing ==
    [][RejectedInput(event') => UNCHANGED uiVars]_vars

\* A non-image file has been dropped while a selection exists.
C3_Witness ==
    /\ RejectedInput(event)
    /\ event.kind = "drop"
    /\ selectedFile # null

(***************************************************************************)
(* C4.  Every rejection of a non-image input, from the file picker or from *)
(* a drop, is accompanied by the user-facing message.                      *)
(***************************************************************************)
C4_RejectionNotified == RejectedInput(event) => notice = InvalidTypeMsg

(***************************************************************************)
(* C5.  The remove action leaves the UI in NoSelection from any state, and *)
(* the UI stays in NoSelection for as long as no new selection is made.    *)
(***************************************************************************)
C5_RemoveStaysNoSelection ==
    [][/\ event'.kind = "removeClick" => NoSelection'
       /\ (NoSelection /\ selectedFile' = null) => NoSelection']_vars

(***************************************************************************)
(* C6.  Every step that starts an analysis (shows the loader and suspends  *)
(* at the simulated request) is taken with a file selected, and a click on *)
(* the trigger with no file selected changes nothing.                      *)
(***************************************************************************)
C6_AnalysisNeedsSelection ==
    [][/\ Len(inflight') > Len(inflight) =>
            (selectedFile # null /\ loaderHidden' = FALSE)
       /\ (event'.kind = "analyzeClick" /\ selectedFile = null) =>
            UNCHANGED uiVars]_vars

\* The trigger has been clicked while no file was selected (analyzePhoto
\* does not change selectedFile).
C6_Witness ==
    /\ event.kind = "analyzeClick"
    /\ selectedFile = null

(***************************************************************************)
(* C7.  Every accepted image whose decode is pending eventually has its    *)
(* decode end, and when it ends with the load callback the UI is in the    *)
(* state where the preview surface is visible, the upload surface is       *)
(* hidden and the trigger is enabled (whether or not the photo was removed *)
(* in between).                                                            *)
(***************************************************************************)
C7_DecodeLeadsToPreview ==
    \A file \in ImageFiles :
        (readers[file] > 0) ~>
            \/ (event = Event("readerLoad", file) /\ PreviewShown)
            \/ event = Event("readerError", file)

\* A decode has completed and the preview is shown.
C7_Witness ==
    /\ event.kind = "readerLoad"
    /\ PreviewShown
    /\ previewSrc = DataURL(event.file)

(***************************************************************************)
(* C8.  In the state right after an analysis attempt completes, whether it *)
(* succeeded or failed, the loader is hidden and the trigger is enabled.   *)
(***************************************************************************)
C8_AfterAnalysisInteractive == event.kind = "timeout" => Interactive

\* An analysis attempt has just failed while another is still in flight.
C8_Witness ==
    /\ event.kind = "timeout"
    /\ logged # NoError
    /\ inflight # <<>>

(***************************************************************************)
(* C9.  Under fairness of the simulated delay the UI never stays in        *)
(* Loading: whenever an analysis is in flight or the loader is visible, an *)
(* analysis eventually completes and leaves the loader hidden and the      *)
(* trigger enabled.  Requests complete in the order they were started, so  *)
(* every started analysis completes.                                       *)
(***************************************************************************)
C9_AnalysisTerminates ==
    (inflight # <<>> \/ loaderHidden = FALSE) ~>
        (event.kind = "timeout" /\ Interactive)

\* An analysis has completed successfully and none is left in flight.
C9_Witness ==
    /\ event.kind = "timeout"
    /\ inflight = <<>>
    /\ resultHidden = FALSE
    /\ Interactive

(***************************************************************************)
(* C10.  As claimed: on a failure during an analysis attempt the           *)
(* notification contains the failure's own message when it has one (the    *)
(* generic message otherwise) and the trigger is enabled.                  *)
(***************************************************************************)
C10_FailureShowsOwnMessage ==
    logged # NoError =>
        /\ IF logged.message # <<>>
           THEN Contains(notice, logged.message)
           ELSE notice = AnalysisErrorMsg
        /\ analyzeDisabled = FALSE

(***************************************************************************)
(* C10, amended.  On a failure during an analysis attempt the notification *)
(* shown is the fixed generic message, whatever message the failure        *)
(* carries, and the trigger is enabled.                                    *)
(***************************************************************************)
C10_FailureShowsGenericMessage ==
    logged # NoError =>
        /\ notice = AnalysisErrorMsg
        /\ analyzeDisabled = FALSE

\* An analysis attempt has failed with an error that carries a message.
C10_Witness ==
    /\ logged # NoError
    /\ logged.message # <<>>
    /\ notice # NoNotice

(***************************************************************************)
(* C11.  After every successful placeholder analysis the six rendered      *)
(* texts are those of one canned record as a whole, and whichever file is  *)
(* selected and whatever else the state is, each of the three records is a *)
(* possible outcome of the analysis that completes next.                   *)
(***************************************************************************)
\* The texts of the three canned records (lines 197-220) as the page shows
\* them.
CannedTexts ==
    << <<"Grecheskij salat", "180", "5", "14", "9",
         "Primernaya porciya: 250g">>,
       <<"Kurinaya grudka s risom", "420", "35", "8", "52",
         "Primernaya porciya: 350g">>,
       <<"Ovsyanaya kasha s fruktami", "280", "8", "6", "48",
         "Primernaya porciya: 300g">> >>

C11_WholeCannedRecord ==
    /\ (event.kind = "timeout" /\ logged = NoError) =>
          \E i \in 1..Len(CannedTexts) : rendered = CannedTexts[i]
    /\ (inflight # <<>> /\ missing = 0) =>
          \A i \in 1..Len(CannedTexts) :
              ENABLED (analyzeResume /\ rendered' = CannedTexts[i])

\* The second record has just been rendered for the second image, over an
\* analysis that is still in flight.
C11_Witness ==
    /\ event.kind = "timeout"
    /\ logged = NoError
    /\ rendered = CannedTexts[2]
    /\ resultFor = 2
    /\ inflight # <<>>

(***************************************************************************)
(* C12.  As claimed: after every analysis attempt completes, on the        *)
(* success path and on the failure path alike, the results surface is      *)
(* visible and the loader is hidden.                                       *)
(***************************************************************************)
C12_AlwaysRevealsResults ==
    event.kind = "timeout" => (resultHidden = FALSE /\ loaderHidden = TRUE)

(***************************************************************************)
(* C12, amended.  Every step that completes an analysis attempt hides the  *)
(* loader; it reveals the results surface when the attempt succeeded and   *)
(* leaves the surface's visibility as it was when the attempt failed.      *)
(***************************************************************************)
C12_RevealsResultsOnSuccess ==
    [][event'.kind = "timeout" =>
         /\ loaderHidden' = TRUE
         /\ IF logged' = NoError
            THEN resultHidden' = FALSE
            ELSE UNCHANGED resultHidden]_vars

\* An analysis attempt has failed: the loader is hidden and so are the
\* results.
C12_Witness ==
    /\ event.kind = "timeout"
    /\ logged # NoError
    /\ resultHidden = TRUE
    /\ loaderHidden = TRUE

(***************************************************************************)
(* C13.  In every reachable state exactly one of the upload surface and    *)
(* the preview surface is visible.                                         *)
(***************************************************************************)
C13_OneSurfaceVisible == previewHidden # uploadHidden

\* The preview surface has replaced the upload surface after the photo was
\* removed, while an analysis is in flight.
C13_Witness ==
    /\ previewHidden = FALSE
    /\ uploadHidden = TRUE
    /\ selectedFile = null
    /\ inflight # <<>>

(***************************************************************************)
(* C14.  Whenever the preview surface is visible, a file is selected and   *)
(* the preview image is the decode of the selected file.                   *)
(***************************************************************************)
C14_PreviewShowsSelection ==
    previewHidden = FALSE =>
        (selectedFile # null /\ previewSrc = DataURL(selectedFile))

(***************************************************************************)
(* C15.  Whenever the analyze trigger is enabled, a file is selected.      *)
(***************************************************************************)
C15_EnabledNeedsSelection == analyzeDisabled = FALSE => selectedFile # null

(***************************************************************************)
(* C16.  Whenever an analysis request is in flight, the loader is visible  *)
(* and the trigger is disabled.                                            *)
(***************************************************************************)
C16_BusyWhileInFlight ==
    inflight # <<>> => (loaderHidden = FALSE /\ analyzeDisabled = TRUE)

====
